---------------------------- MODULE Spec2Model ----------------------------
(***************************************************************************)
(* Model of the NeoPatterns engine and of the three-strip sketch that      *)
(* drives it (src/unnamed/part_000, the later variant of                   *)
(* src/SCS_E3_Neopixels.ino).                                              *)
(*                                                                         *)
(* An engine is a record: the member variables of class NeoPatterns, the   *)
(* pixel buffer of its Adafruit_NeoPixel base, and three observation       *)
(* fields that record what the engine did (they never influence it):       *)
(*   shows     number of show() calls made by the most recent operation    *)
(*   rendered  the Index of every frame rendered since the engine was last *)
(*             operated from outside (a pattern started, a solid colour    *)
(*             set, Reverse() called by the host)                          *)
(*   cbAt      Len(rendered) at each invocation of OnComplete by this      *)
(*             engine since then                                           *)
(*   startDir  the Direction that operation left                           *)
(* Arithmetic on uint16_t/uint8_t operands is modelled at the widths of an *)
(* 8-bit AVR board (int is 16 bits).                                       *)
(***************************************************************************)
EXTENDS Integers, Sequences, FiniteSets, TLC

VARIABLES
    strips,    \* Strip1, Strip2, Strip3
    now,       \* millis()
    pc,        \* the statement of loop() to run next: 1..3 Update, 4 the read
    serial,    \* bytes received and not yet read
    sent,      \* inputs of the host so far: bytes sent (Spec, ScenarioSpec),
               \* calls made (EngineSpec)
    cmd,       \* per strip, the last command byte addressed to it, and whether
               \* no other strip was pulsing then nor commanded since
               \* (observation)
    lastByte,  \* the byte the last read_from_serial consumed, -1 if none
    cmdAt      \* millis() when the last byte was consumed (observation)

vars == <<strips, now, pc, serial, sent, cmd, lastByte, cmdAt>>

\* ------------------------------------------------------------------ bounds

\* Cells per strip (300 in the sketch).
NumPixels == 7

\* Last value of millis() the model lets the clock reach.
MaxTime == 7

\* Step count and interval the interleaving specifications pass to Pulse
\* (50 and 10 in the sketch; ScenarioSpec uses those).
PulseSteps == 3

PulseInterval == 1

\* Largest step count and interval handed to Fade/Pulse by EngineSpec.
MaxSteps == 3

MaxInterval == 1

\* Serial input: bytes the host may send in total, and bytes that may wait.
MaxBytes == 2

MaxQueue == 2

\* Calls other than Update the host of EngineSpec makes in total.
MaxCalls == 2

\* Last value of millis() ScenarioSpec lets the clock reach.
ScenarioTime == 600

\* Largest step count given to Fade and Pulse in FadeSpec.
MaxFadeSteps == 258

\* ------------------------------------------------------- program constants

ActualPulseSteps == 50

ActualPulseInterval == 10

RainbowSteps == 255

\* ------------------------------------------------------------------- types

NONE == "NONE"
RAINBOW_CYCLE == "RAINBOW_CYCLE"
THEATER_CHASE == "THEATER_CHASE"
COLOR_WIPE == "COLOR_WIPE"
SCANNER == "SCANNER"
FADE == "FADE"
PULSE == "PULSE"

FORWARD == "FORWARD"
REVERSE == "REVERSE"

Strips == 1 .. 3

Cells == 0 .. (NumPixels - 1)

UInt8(x) == x % 256

UInt16(x) == x % 65536

\* ---------------------------------------------------------- colour packing

Color(r, g, b) == (UInt8(r) * 65536) + (UInt8(g) * 256) + UInt8(b)

Red(color) == (color \div 65536) % 256

Green(color) == (color \div 256) % 256

Blue(color) == color % 256

\* A dimming to a quarter instead of a half.
DimColorQuarter(color) ==
    Color(Red(color) \div 4, Green(color) \div 4, Blue(color) \div 4)

DimColor(color) ==
    Color(Red(color) \div 2, Green(color) \div 2, Blue(color) \div 2)

\* A wheel whose second and third bands do not start their ramps at 0.
WheelNoOffset(WheelPos) ==
    LET p == UInt8(255 - WheelPos)
    IN  IF p < 85 THEN Color(255 - (p * 3), 0, p * 3)
        ELSE IF p < 170 THEN Color(0, p * 3, 255 - (p * 3))
        ELSE Color(p * 3, 255 - (p * 3), 0)

Wheel(WheelPos) ==
    LET p == UInt8(255 - WheelPos)
    IN  IF p < 85 THEN Color(255 - (p * 3), 0, p * 3)
        ELSE IF p < 170 THEN Color(0, (p - 85) * 3, 255 - ((p - 85) * 3))
        ELSE Color((p - 170) * 3, 255 - ((p - 170) * 3), 0)

\* ------------------------------------------------------------ pixel buffer

\* Adafruit_NeoPixel::setPixelColor: a write outside the buffer is dropped.
setPixelColor(e, n, c) ==
    IF n \in Cells THEN [e EXCEPT !.pixels[n] = c] ELSE e

getPixelColor(e, n) == IF n \in Cells THEN e.pixels[n] ELSE 0

show(e) == [e EXCEPT !.shows = @ + 1]

ColorSet(e, color) ==
    show([e EXCEPT !.pixels = [i \in Cells |-> color]])

\* ------------------------------------------------------- step counter

\* A reversal that turns the run around where it stands.
ReverseInPlace(e) ==
    [e EXCEPT !.Direction = IF e.Direction = FORWARD THEN REVERSE ELSE FORWARD]

\* A reversal that shortens the run it starts.
ReverseShortens(e) ==
    IF e.Direction = FORWARD
    THEN [e EXCEPT !.Direction = REVERSE, !.Index = UInt16(e.TotalSteps - 1),
                   !.TotalSteps = UInt16(e.TotalSteps - 1)]
    ELSE [e EXCEPT !.Direction = FORWARD, !.Index = 0]

Reverse(e) ==
    IF e.Direction = FORWARD
    THEN [e EXCEPT !.Direction = REVERSE, !.Index = UInt16(e.TotalSteps - 1)]
    ELSE [e EXCEPT !.Direction = FORWARD, !.Index = 0]

\* The one completion callback all three strips are constructed with.
StripComplete(S) ==
    [s \in Strips |-> IF S[s].ActivePattern = PULSE THEN Reverse(S[s]) ELSE S[s]]

\* OnComplete is never NULL: every strip is constructed with &StripComplete.
OnComplete(S, s) ==
    StripComplete([S EXCEPT ![s].cbAt = Append(@, Len(S[s].rendered))])

Increment(S, s) ==
    LET e == S[s]
    IN  IF e.Direction = FORWARD
        THEN LET i == UInt16(e.Index + 1)
             IN  IF i >= e.TotalSteps
                 THEN OnComplete([S EXCEPT ![s].Index = 0], s)
                 ELSE [S EXCEPT ![s].Index = i]
        ELSE LET i == UInt16(e.Index - 1)
             IN  IF i <= 0
                 THEN OnComplete([S EXCEPT ![s].Index = UInt16(e.TotalSteps - 1)], s)
                 ELSE [S EXCEPT ![s].Index = i]

\* --------------------------------------------------- pattern initialisers

RainbowCycle(e, interval, dir) ==
    [e EXCEPT !.ActivePattern = RAINBOW_CYCLE, !.Interval = interval,
              !.TotalSteps = RainbowSteps, !.Index = 0, !.Direction = dir]

TheaterChase(e, color1, color2, interval, dir) ==
    [e EXCEPT !.ActivePattern = THEATER_CHASE, !.Interval = interval,
              !.TotalSteps = NumPixels, !.Color1 = color1, !.Color2 = color2,
              !.Index = 0, !.Direction = dir]

ColorWipe(e, color, interval, dir) ==
    [e EXCEPT !.ActivePattern = COLOR_WIPE, !.Interval = interval,
              !.TotalSteps = NumPixels, !.Color1 = color,
              !.Index = 0, !.Direction = dir]

\* A scan whose cycle is two full strip lengths.
ScannerLong(e, color1, interval) ==
    [e EXCEPT !.ActivePattern = SCANNER, !.Interval = interval,
              !.TotalSteps = UInt16(NumPixels * 2), !.Color1 = color1,
              !.Index = 0]

Scanner(e, color1, interval) ==
    [e EXCEPT !.ActivePattern = SCANNER, !.Interval = interval,
              !.TotalSteps = UInt16((NumPixels - 1) * 2), !.Color1 = color1,
              !.Index = 0]

Fade(e, color1, color2, steps, interval, dir) ==
    [e EXCEPT !.ActivePattern = FADE, !.Interval = interval,
              !.TotalSteps = steps, !.Color1 = color1, !.Color2 = color2,
              !.Index = 0, !.Direction = dir]

Pulse(e, color1, color2, steps, interval, dir) ==
    [e EXCEPT !.ActivePattern = PULSE, !.Interval = interval,
              !.TotalSteps = steps, !.Color1 = color1, !.Color2 = color2,
              !.Index = 0, !.Direction = dir]

\* ------------------------------------------------------------- rendering

\* Every XUpdate renders the frame of the current Index.
Frame(e) == [e EXCEPT !.rendered = Append(@, e.Index)]

RECURSIVE SetCells(_, _, _)
\* for (int i = 0; i < numPixels(); i++) setPixelColor(i, f[i]), from cell i on
SetCells(e, i, f) ==
    IF i >= NumPixels THEN e ELSE SetCells(setPixelColor(e, i, f[i]), i + 1, f)

RainbowCycleUpdate(S, s) ==
    LET e == Frame(S[s])
        f == [i \in Cells |-> Wheel((((i * 256) \div NumPixels) + e.Index) % 256)]
    IN  Increment([S EXCEPT ![s] = show(SetCells(e, 0, f))], s)

\* A chase whose lit cells do not move with Index.
TheaterChaseUpdateStill(S, s) ==
    LET e == Frame(S[s])
        f == [i \in Cells |-> IF i % 3 = 0 THEN e.Color1 ELSE e.Color2]
    IN  Increment([S EXCEPT ![s] = show(SetCells(e, 0, f))], s)

TheaterChaseUpdate(S, s) ==
    LET e == Frame(S[s])
        f == [i \in Cells |-> IF UInt16(i + e.Index) % 3 = 0 THEN e.Color1 ELSE e.Color2]
    IN  Increment([S EXCEPT ![s] = show(SetCells(e, 0, f))], s)

\* A wipe that paints the whole buffer at every tick.
ColorWipeUpdateFill(S, s) ==
    LET e == Frame(S[s])
    IN  Increment([S EXCEPT ![s] = ColorSet(e, e.Color1)], s)

ColorWipeUpdate(S, s) ==
    LET e == Frame(S[s])
    IN  Increment([S EXCEPT ![s] = show(setPixelColor(e, e.Index, e.Color1))], s)

ScannerUpdate(S, s) ==
    LET e == Frame(S[s])
        f == [i \in Cells |->
                IF i = e.Index THEN e.Color1
                ELSE IF i = UInt16(e.TotalSteps - e.Index) THEN e.Color1
                ELSE DimColor(getPixelColor(e, i))]
    IN  Increment([S EXCEPT ![s] = show(SetCells(e, 0, f))], s)

\* One channel of the interpolation, in 16-bit unsigned arithmetic, stored
\* into a uint8_t.
FadeChannel(c1, c2, TotalSteps, Index) ==
    UInt8(UInt16(UInt16(c1 * UInt16(TotalSteps - Index)) + UInt16(c2 * Index))
            \div TotalSteps)

FadeColor(e) ==
    Color(FadeChannel(Red(e.Color1), Red(e.Color2), e.TotalSteps, e.Index),
          FadeChannel(Green(e.Color1), Green(e.Color2), e.TotalSteps, e.Index),
          FadeChannel(Blue(e.Color1), Blue(e.Color2), e.TotalSteps, e.Index))

FadeUpdate(S, s) ==
    LET e == Frame(S[s])
    IN  Increment([S EXCEPT ![s] = show(ColorSet(e, FadeColor(e)))], s)

PulseUpdate(S, s) == FadeUpdate(S, s)

\* millis() is read as t; the two reads of it in Update fall in the same
\* millisecond. The clock stays far below 2^32 ms, so the unsigned
\* difference millis() - lastUpdate is the plain difference.
Update(S, s, t) ==
    LET e == S[s]
    IN  IF (t - e.lastUpdate) > e.Interval
        THEN LET T == [S EXCEPT ![s].lastUpdate = t]
             IN  CASE e.ActivePattern = RAINBOW_CYCLE -> RainbowCycleUpdate(T, s)
                   [] e.ActivePattern = THEATER_CHASE -> TheaterChaseUpdate(T, s)
                   [] e.ActivePattern = COLOR_WIPE -> ColorWipeUpdate(T, s)
                   [] e.ActivePattern = SCANNER -> ScannerUpdate(T, s)
                   [] e.ActivePattern = FADE -> FadeUpdate(T, s)
                   [] e.ActivePattern = PULSE -> PulseUpdate(T, s)
                   [] OTHER -> T
        ELSE S


\* ------------------------------------------------------------ the sketch

\* A global NeoPatterns object: zero-initialised storage, a cleared buffer.
NewStrip ==
    [ActivePattern |-> NONE, Direction |-> FORWARD, Interval |-> 0,
     lastUpdate |-> 0, Color1 |-> 0, Color2 |-> 0, TotalSteps |-> 0,
     Index |-> 0, pixels |-> [i \in Cells |-> 0],
     shows |-> 0, rendered |-> <<>>, cbAt |-> <<>>, startDir |-> FORWARD]

\* The member variables and the buffer of an engine, without the observations.
State(e) ==
    [ActivePattern |-> e.ActivePattern, Direction |-> e.Direction,
     Interval |-> e.Interval, lastUpdate |-> e.lastUpdate,
     Color1 |-> e.Color1, Color2 |-> e.Color2, TotalSteps |-> e.TotalSteps,
     Index |-> e.Index, pixels |-> e.pixels]

\* Observations restart when the engine is operated from outside.
Started(e) ==
    [e EXCEPT !.rendered = <<>>, !.cbAt = <<>>, !.startDir = e.Direction]

Quiet(e) == [e EXCEPT !.shows = 0]

\* '0' .. '9' and one byte that is no command ('x').
Bytes == (48 .. 57) \cup {120}

PulseBytes == 49 .. 51

SolidBytes == {48} \cup (52 .. 57)

\* The strips a command byte addresses, by the command table.
Target(b) ==
    IF b = 48 THEN Strips
    ELSE IF b \in 49 .. 57 THEN {((b - 49) % 3) + 1}
    ELSE {}

StationColor(s) ==
    CASE s = 1 -> Color(127, 127, 0)
      [] s = 2 -> Color(0, 127, 0)
      [] s = 3 -> Color(0, 0, 127)

\* Mutant of Solid: the pattern is left running.
SolidKeepsPattern(e, color) == ColorSet(e, color)

\* Strip.ActivePattern = NONE; Strip.ColorSet(color);
Solid(e, color) == ColorSet([e EXCEPT !.ActivePattern = NONE], color)

\* Mutant of StripOf: the branch of '5' names Strip1.
StripOfPasted(b) ==
    IF b = 53 THEN 1
    ELSE IF b \in 49 .. 51 THEN b - 48
    ELSE IF b \in 52 .. 54 THEN b - 51
    ELSE b - 54

\* The Strip object the branch of command byte b ('1' .. '9') names.
StripOf(b) ==
    IF b \in 49 .. 51 THEN b - 48
    ELSE IF b \in 52 .. 54 THEN b - 51
    ELSE b - 54

\* The if-chain of read_from_serial on the byte b it has read; steps and
\* interval are the literals 50 and 10 of the three Pulse calls.
Dispatch(S, b, steps, interval) ==
    IF b = 48
    THEN [s \in Strips |-> Started(Solid(S[s], Color(0, 0, 0)))]
    ELSE IF b \in PulseBytes
    THEN LET s == StripOf(b)
         IN  [S EXCEPT ![s] = Started(Pulse(@, Color(0, 0, 0), StationColor(s),
                                            steps, interval, FORWARD))]
    ELSE IF b \in 52 .. 54
    THEN [S EXCEPT ![StripOf(b)] = Started(Solid(@, Color(127, 0, 0)))]
    ELSE IF b \in 55 .. 57
    THEN LET s == StripOf(b)
         IN  [S EXCEPT ![s] = Started(Solid(@, StationColor(s)))]
    ELSE S

TypeOK ==
    /\ now \in 0 .. ScenarioTime
    /\ pc \in 1 .. 4
    /\ serial \in Seq(Bytes)
    /\ sent \in Nat
    /\ lastByte \in Bytes \cup {-1}
    /\ \A s \in Strips :
        /\ strips[s].ActivePattern \in
             {NONE, RAINBOW_CYCLE, THEATER_CHASE, COLOR_WIPE, SCANNER, FADE, PULSE}
        /\ strips[s].Direction \in {FORWARD, REVERSE}
        /\ strips[s].Index \in 0 .. 65535
        /\ strips[s].TotalSteps \in 0 .. 65535

Init ==
    /\ strips = [s \in Strips |-> NewStrip]
    /\ now = 0
    /\ pc = 1
    /\ serial = <<>>
    /\ sent = 0
    /\ cmd = [s \in Strips |-> [byte |-> -1, solo |-> FALSE]]
    /\ lastByte = -1
    /\ cmdAt = 0

\* The timer interrupt: millis() advances by one.
Millis ==
    /\ now < MaxTime
    /\ now' = now + 1
    /\ UNCHANGED <<strips, pc, serial, sent, cmd, lastByte, cmdAt>>

\* The host sends a byte.
Receive ==
    /\ sent < MaxBytes
    /\ Len(serial) < MaxQueue
    /\ \E b \in Bytes : serial' = Append(serial, b)
    /\ sent' = sent + 1
    /\ UNCHANGED <<strips, now, pc, cmd, lastByte, cmdAt>>

\* The strips after strip s is ticked now.
Tick(s) == Update([strips EXCEPT ![s] = Quiet(@)], s, now)

\* loop(): Strip1.Update(); Strip2.Update(); Strip3.Update();
LoopUpdate ==
    /\ pc \in Strips
    /\ strips' = Tick(pc)
    /\ pc' = pc + 1
    /\ UNCHANGED <<now, serial, sent, cmd, lastByte, cmdAt>>

\* loop(): read_from_serial();
ReadFromSerial(steps, interval) ==
    /\ pc = 4
    /\ pc' = 1
    /\ IF Len(serial) > 0
       THEN LET b == Head(serial)
            IN  /\ serial' = Tail(serial)
                /\ strips' = Dispatch([s \in Strips |-> Quiet(strips[s])],
                                      b, steps, interval)
                /\ lastByte' = b
                /\ cmdAt' = now
                /\ cmd' = [s \in Strips |->
                             IF s \in Target(b)
                             THEN [byte |-> b,
                                   solo |-> \A o \in Strips \ {s} :
                                              strips[o].ActivePattern # PULSE]
                             ELSE IF Target(b) = {}
                             THEN cmd[s]
                             ELSE [cmd[s] EXCEPT !.solo = FALSE]]
       ELSE /\ strips' = [s \in Strips |-> Quiet(strips[s])]
            /\ lastByte' = -1
            /\ UNCHANGED <<serial, cmd, cmdAt>>
    /\ UNCHANGED sent

LoopRead ==
    /\ ReadFromSerial(PulseSteps, PulseInterval)
    /\ UNCHANGED now

Next ==
    \/ Millis
    \/ Receive
    \/ LoopUpdate
    \/ LoopRead

Spec == Init /\ [][Next]_vars


\* ------------------------------------------- the engine driven by a host

\* EngineSpec: one NeoPatterns object (Strip1, with its StripComplete
\* callback) operated through its public interface in any order.
Engine == 1

Dirs == {FORWARD, REVERSE}

Palette == {Color(0, 0, 0), Color(127, 127, 0)}

Intervals == 0 .. MaxInterval

StepCounts == 1 .. MaxSteps

Idle == UNCHANGED <<now, pc, serial, cmd, lastByte, cmdAt>>

\* A call by the host that leaves the engine as e.
Operate(e) ==
    /\ sent < MaxCalls
    /\ sent' = sent + 1
    /\ strips' = [strips EXCEPT ![Engine] = Started(Quiet(e))]

StartRainbowCycle ==
    /\ \E i \in Intervals, d \in Dirs :
         Operate(RainbowCycle(strips[Engine], i, d))
    /\ Idle

StartTheaterChase ==
    /\ \E c1 \in Palette, c2 \in Palette, i \in Intervals, d \in Dirs :
         Operate(TheaterChase(strips[Engine], c1, c2, i, d))
    /\ Idle

StartColorWipe ==
    /\ \E c \in Palette, i \in Intervals, d \in Dirs :
         Operate(ColorWipe(strips[Engine], c, i, d))
    /\ Idle

StartScanner ==
    /\ \E c \in Palette, i \in Intervals :
         Operate(Scanner(strips[Engine], c, i))
    /\ Idle

StartFade ==
    /\ \E c1 \in Palette, c2 \in Palette, n \in StepCounts,
          i \in Intervals, d \in Dirs :
         Operate(Fade(strips[Engine], c1, c2, n, i, d))
    /\ Idle

StartPulse ==
    /\ \E c1 \in Palette, c2 \in Palette, n \in StepCounts,
          i \in Intervals, d \in Dirs :
         Operate(Pulse(strips[Engine], c1, c2, n, i, d))
    /\ Idle

CallReverse ==
    /\ strips[Engine].ActivePattern # NONE
    /\ Operate(Reverse(strips[Engine]))
    /\ Idle

CallUpdate ==
    /\ strips' = Tick(Engine)
    /\ UNCHANGED sent
    /\ Idle

EngineNext ==
    \/ Millis
    \/ StartRainbowCycle
    \/ StartTheaterChase
    \/ StartColorWipe
    \/ StartScanner
    \/ StartFade
    \/ StartPulse
    \/ CallReverse
    \/ CallUpdate

EngineSpec == Init /\ [][EngineNext]_vars


\* ------------------------------------------- the scenario of command '1'

\* ScenarioSpec: the sketch with its own Pulse arguments (50 steps, 10 ms).
\* The host sends '1' once, early; each iteration of loop() takes 1 ms, so
\* every strip is ticked once per millisecond.
ScenarioReceive ==
    /\ sent = 0
    /\ now <= MaxTime
    /\ serial' = <<49>>
    /\ sent' = 1
    /\ UNCHANGED <<strips, now, pc, cmd, lastByte, cmdAt>>

ScenarioRead ==
    /\ now < ScenarioTime
    /\ ReadFromSerial(ActualPulseSteps, ActualPulseInterval)
    /\ now' = now + 1

ScenarioNext ==
    \/ ScenarioReceive
    \/ LoopUpdate
    \/ ScenarioRead

ScenarioSpec == Init /\ [][ScenarioNext]_vars


\* ------------------------------------------------- the sketch left running

\* LiveSpec: the sketch of Spec with a clock that never stops. millis() is
\* read only in the difference millis() - lastUpdate, and every difference
\* above Interval makes Update behave alike, so the clock is kept relative
\* to a sliding origin: once it has reached LiveTime, a further millisecond
\* moves every recorded time one millisecond into the past instead.
LiveTime == PulseInterval + 1

Earlier(t) == IF t > 0 THEN t - 1 ELSE 0

\* The observations of a tick restart with the tick.
Fresh(e) == [Quiet(e) EXCEPT !.rendered = <<>>, !.cbAt = <<>>]

LiveMillis ==
    /\ IF now < LiveTime
       THEN /\ now' = now + 1
            /\ UNCHANGED <<strips, cmdAt>>
       ELSE /\ now' = now
            /\ strips' = [s \in Strips |->
                            [strips[s] EXCEPT !.lastUpdate = Earlier(@)]]
            /\ cmdAt' = Earlier(cmdAt)
    /\ UNCHANGED <<pc, serial, sent, cmd, lastByte>>

\* loop(): Strip1.Update(); Strip2.Update(); Strip3.Update();
LiveUpdate ==
    /\ pc \in Strips
    /\ strips' = Update([strips EXCEPT ![pc] = Fresh(@)], pc, now)
    /\ pc' = pc + 1
    /\ UNCHANGED <<now, serial, sent, cmd, lastByte, cmdAt>>

LiveNext ==
    \/ LiveMillis
    \/ Receive
    \/ LiveUpdate
    \/ LoopRead

\* loop() is called again and again and the timer interrupt keeps firing.
LiveSpec ==
    /\ Init
    /\ [][LiveNext]_vars
    /\ WF_vars(LiveMillis)
    /\ WF_vars(LiveUpdate)
    /\ WF_vars(LoopRead)


\* ------------------------------------------------ one pattern, tick by tick

\* The sketch's variables with Strip1 already set to e by an initialiser.
Prepared(e) ==
    /\ strips = [s \in Strips |->
                    IF s = Engine THEN Started(e) ELSE NewStrip]
    /\ now = 0
    /\ pc = 1
    /\ serial = <<>>
    /\ sent = 0
    /\ cmd = [s \in Strips |-> [byte |-> -1, solo |-> FALSE]]
    /\ lastByte = -1
    /\ cmdAt = 0

\* FadeSpec: Strip1 is started in Fade or Pulse and FadeUpdate is applied to
\* it again and again.
FadeColors == {Color(255, 127, 0), Color(0, 1, 255)}

FadeInit ==
    \E color1 \in FadeColors, color2 \in FadeColors, steps \in 1 .. MaxFadeSteps :
        \/ Prepared(Fade(NewStrip, color1, color2, steps, 0, FORWARD))
        \/ Prepared(Pulse(NewStrip, color1, color2, steps, 0, FORWARD))

FadeTick ==
    /\ strips' = FadeUpdate([strips EXCEPT ![Engine] = Fresh(@)], Engine)
    /\ UNCHANGED <<now, pc, serial, sent, cmd, lastByte, cmdAt>>

FadeSpec == FadeInit /\ [][FadeTick]_vars


\* RainbowSpec: Strip1 is started in RainbowCycle and RainbowCycleUpdate is
\* applied to it again and again.
RainbowInit ==
    \E dir \in Dirs : Prepared(RainbowCycle(NewStrip, 0, dir))

RainbowTick ==
    /\ strips' = RainbowCycleUpdate([strips EXCEPT ![Engine] = Fresh(@)], Engine)
    /\ UNCHANGED <<now, pc, serial, sent, cmd, lastByte, cmdAt>>

RainbowSpec == RainbowInit /\ [][RainbowTick]_vars


\* ScannerSpec: the host starts a chase in one colour, sets the whole strip
\* to that colour and then starts Scanner, which is ticked through two
\* cycles. The chase leaves Direction as it was given and its colour in
\* Color2, neither of which Scanner assigns.
ScanColors == {Color(255, 128, 1), Color(0, 100, 37)}

ScannerInit ==
    \E color1 \in ScanColors, left \in ScanColors \cup {Color(0, 0, 0)}, dir \in Dirs :
        Prepared(Scanner(ColorSet(TheaterChase(NewStrip, left, left, 0, dir), left),
                         color1, 0))

ScannerTick ==
    /\ Len(strips[Engine].rendered) < 2 * strips[Engine].TotalSteps
    /\ strips' = ScannerUpdate([strips EXCEPT ![Engine] = Quiet(@)], Engine)
    /\ UNCHANGED <<now, pc, serial, sent, cmd, lastByte, cmdAt>>

ScannerSpec == ScannerInit /\ [][ScannerTick]_vars

\* ================================================================= claims

\* The fields of an engine that C2 names.
Pattern(e) ==
    [ActivePattern |-> e.ActivePattern, Direction |-> e.Direction,
     Index |-> e.Index, TotalSteps |-> e.TotalSteps,
     Color1 |-> e.Color1, Color2 |-> e.Color2, pixels |-> e.pixels]

\* C1 (EngineSpec): whenever a pattern is active, 0 <= Index < TotalSteps.
C1_IndexInRange ==
    \A s \in Strips :
        strips[s].ActivePattern # NONE =>
            (0 <= strips[s].Index /\ strips[s].Index < strips[s].TotalSteps)

\* C2 (Spec): a tick of one strip leaves the pattern state and the buffer of
\* the other two strips as they were.
C2_TickIsLocal ==
    [][(pc \in Strips /\ pc' # pc) =>
         \A o \in Strips \ {pc} : Pattern(strips'[o]) = Pattern(strips[o])]_vars

\* C3 (EngineSpec): a Pulse of two or more steps started Forward and left
\* alone is Reverse at Index = TotalSteps-1 after TotalSteps frames, and
\* Forward at Index = 0 after 2*TotalSteps frames, its callback having fired
\* exactly twice by then.
C3_PingPong ==
    LET e == strips[Engine]
        n == Len(e.rendered)
    IN  (e.ActivePattern = PULSE /\ e.startDir = FORWARD /\ e.TotalSteps >= 2) =>
            /\ n = e.TotalSteps =>
                 (e.Direction = REVERSE /\ e.Index = e.TotalSteps - 1)
            /\ n = 2 * e.TotalSteps =>
                 (e.Direction = FORWARD /\ e.Index = 0 /\ Len(e.cbAt) = 2)

\* C4 (EngineSpec): a tick is a no-op when now - lastUpdate < Interval; when
\* now - lastUpdate >= Interval and a pattern is active it sets lastUpdate to
\* now and renders one frame.
C4_TickWhenElapsed ==
    LET e == strips[Engine]
        t == Tick(Engine)[Engine]
    IN  IF now - e.lastUpdate < e.Interval
        THEN State(t) = State(e)
        ELSE e.ActivePattern # NONE =>
                 /\ t.lastUpdate = now
                 /\ Len(t.rendered) = Len(e.rendered) + 1

\* C5 (EngineSpec): a tick commits the buffer exactly once when it renders a
\* frame and not at all otherwise, whatever the pattern.
C5_OneCommitPerTick ==
    LET e == strips[Engine]
        t == Tick(Engine)[Engine]
    IN  t.shows = IF Len(t.rendered) > Len(e.rendered) THEN 1 ELSE 0

\* C6 (EngineSpec): for a pattern whose callback leaves the direction alone,
\* the frames rendered between two consecutive callbacks are TotalSteps
\* frames, one for each Index of 0 .. TotalSteps-1.
C6_FullTraversal ==
    LET e == strips[Engine]
        k == Len(e.cbAt)
    IN  (e.ActivePattern \notin {NONE, PULSE} /\ k >= 2) =>
            /\ e.cbAt[k] - e.cbAt[k - 1] = e.TotalSteps
            /\ {e.rendered[j] : j \in (e.cbAt[k - 1] + 1) .. e.cbAt[k]}
                 = 0 .. (e.TotalSteps - 1)


\* The colour C7 gives for a solid command byte on strip s.
SolidColor(b, s) ==
    IF b = 48 THEN Color(0, 0, 0)
    ELSE IF b \in 52 .. 54 THEN Color(127, 0, 0)
    ELSE IF s = 1 THEN Color(127, 127, 0)
    ELSE IF s = 2 THEN Color(0, 127, 0)
    ELSE Color(0, 0, 127)

\* C7 (Spec): from a solid or off command to the next command addressing the
\* strip, the strip is idle and every cell holds the commanded colour.
C7_SolidStays ==
    \A s \in Strips :
        cmd[s].byte \in SolidBytes =>
            /\ strips[s].ActivePattern = NONE
            /\ \A i \in Cells : strips[s].pixels[i] = SolidColor(cmd[s].byte, s)

\* Strip 1 was set solid amber by '7', strip 2 was then set pulsing, has
\* completed a cycle (its callback has fired) and strip 1 was ticked after it.
C7_Witness ==
    /\ cmd[1].byte = 55
    /\ cmd[2].byte = 50
    /\ cmd[2].solo
    /\ Len(strips[2].cbAt) >= 1
    /\ strips[1].lastUpdate > strips[2].lastUpdate
    /\ \A i \in Cells : strips[1].pixels[i] = Color(127, 127, 0)

\* C8 (Spec): read_from_serial consumes at most one byte; the strips a byte
\* does not address ('1'..'9': all but one; another byte: all) keep their
\* state, and nothing changes when no byte is waiting.
C8_DispatchIsLocal ==
    [][(pc = 4 /\ pc' = 1) =>
         /\ Len(serial) - Len(serial') <= 1
         /\ \A s \in Strips :
              (Len(serial) = 0 \/ s \notin Target(Head(serial))) =>
                  State(strips'[s]) = State(strips[s])]_vars

\* An unrecognised byte has just been read while strip 1 was part-way
\* through a pulse.
C8_Witness ==
    /\ lastByte = 120
    /\ pc = 1
    /\ strips[1].ActivePattern = PULSE
    /\ strips[1].Index = 1

\* The fields C9 names.
Reset(e) ==
    [Index |-> e.Index, Direction |-> e.Direction, TotalSteps |-> e.TotalSteps,
     Color1 |-> e.Color1, Color2 |-> e.Color2, Interval |-> e.Interval]

\* C9 (EngineSpec): a pattern initialiser called in the current state leaves
\* Index = 0 and the same Direction, TotalSteps, Color1, Color2 and Interval
\* as the same call on a newly constructed engine: nothing is left over.
C9_InitDeterminedByCall ==
    LET e == strips[Engine]
        Same(a, b) == Reset(a) = Reset(b) /\ a.Index = 0
    IN  \A c1 \in Palette, c2 \in Palette, n \in StepCounts,
           i \in Intervals, d \in Dirs :
            /\ Same(RainbowCycle(e, i, d), RainbowCycle(NewStrip, i, d))
            /\ Same(TheaterChase(e, c1, c2, i, d), TheaterChase(NewStrip, c1, c2, i, d))
            /\ Same(ColorWipe(e, c1, i, d), ColorWipe(NewStrip, c1, i, d))
            /\ Same(Scanner(e, c1, i), Scanner(NewStrip, c1, i))
            /\ Same(Fade(e, c1, c2, n, i, d), Fade(NewStrip, c1, c2, n, i, d))
            /\ Same(Pulse(e, c1, c2, n, i, d), Pulse(NewStrip, c1, c2, n, i, d))

\* The colour of the k-th frame a fading engine has rendered.
RenderedColor(e, k) == FadeColor([e EXCEPT !.Index = e.rendered[k]])

Channels(c) == <<Red(c), Green(c), Blue(c)>>

\* C10 (ScenarioSpec): 500 ms after '1' was processed strip 1 has rendered
\* exactly the 50 frames of Index 0..49 and runs Reverse; the channels of
\* those frames never decrease and those of the frames after never increase.
C10_After500ms ==
    LET e == strips[1]
        n == Len(e.rendered)
    IN  cmd[1].byte = 49 =>
            /\ now = cmdAt + 500 =>
                 /\ e.rendered = [k \in 1 .. 50 |-> k - 1]
                 /\ e.Direction = REVERSE
            /\ \A k \in 1 .. (n - 1), ch \in 1 .. 3 :
                 IF k < 50
                 THEN Channels(RenderedColor(e, k))[ch]
                        <= Channels(RenderedColor(e, k + 1))[ch]
                 ELSE Channels(RenderedColor(e, k))[ch]
                        >= Channels(RenderedColor(e, k + 1))[ch]


\* C11: under fair ticks and with no further commands, a strip left in Pulse
\* with TotalSteps >= 2 oscillates forever: it is Forward again and again,
\* Reverse again and again, its completion callback fires again and again
\* and it keeps rendering.
C11_PulseOscillates ==
    \A s \in Strips :
        <>[](/\ serial = <<>>
             /\ strips[s].ActivePattern = PULSE
             /\ strips[s].TotalSteps >= 2)
        => /\ []<>(strips[s].Direction = FORWARD)
           /\ []<>(strips[s].Direction = REVERSE)
           /\ []<>(strips[s].cbAt # <<>>)
           /\ []<>(strips[s].rendered # <<>>)


\* The interpolation of one channel as the specification writes it.
Interpolated(c1, c2, TotalSteps, Index) ==
    ((c1 * (TotalSteps - Index)) + (c2 * Index)) \div TotalSteps

Distance(a, b) == IF a >= b THEN a - b ELSE b - a

CeilDiv(a, b) == (a + b - 1) \div b

\* C12: a Fade or Pulse tick at an Index below TotalSteps sets every cell to
\* the colour whose channels are
\* floor((c1*(TotalSteps-Index) + c2*Index) / TotalSteps); at Index 0 this is
\* exactly Color1, and at Index TotalSteps-1 each channel is within
\* ceil(|c2-c1| / TotalSteps) of Color2's channel.
C12_FadeFrame ==
    LET e == strips[Engine]
        k == e.rendered[1]
        c == e.pixels[0]
    IN  (e.rendered # <<>> /\ k < e.TotalSteps) =>
        /\ \A i \in Cells : e.pixels[i] = c
        /\ \A ch \in 1 .. 3 :
             LET c1 == Channels(e.Color1)[ch]
                 c2 == Channels(e.Color2)[ch]
             IN  /\ Channels(c)[ch] = Interpolated(c1, c2, e.TotalSteps, k)
                 /\ k = 0 => Channels(c)[ch] = c1
                 /\ k = e.TotalSteps - 1 =>
                      Distance(Channels(c)[ch], c2)
                        <= CeilDiv(Distance(c2, c1), e.TotalSteps)


LastIndex(e) == e.rendered[Len(e.rendered)]

Lit(e) == {i \in Cells : e.pixels[i] = e.Color1}

\* C14: with Color1 # Color2 and Index below the strip length, the frame of
\* a TheaterChase tick has Color1 exactly on the cells i with
\* (i + Index) mod 3 = 0, the first of them at (-Index) mod 3, and Color2 on
\* all others; the number of Color1 cells is floor(N/3) or ceil(N/3).
C14_ChaseFrame ==
    LET e == strips[Engine]
        k == LastIndex(e)
    IN  (/\ e.ActivePattern = THEATER_CHASE
         /\ e.rendered # <<>>
         /\ k < NumPixels
         /\ e.Color1 # e.Color2)
        => /\ Lit(e) = {i \in Cells : (i + k) % 3 = 0}
           /\ \A i \in Cells \ Lit(e) : e.pixels[i] = e.Color2
           /\ ((3 - (k % 3)) % 3) \in Lit(e)
           /\ \A i \in Lit(e) : i >= (3 - (k % 3)) % 3
           /\ Cardinality(Lit(e)) \in {NumPixels \div 3, CeilDiv(NumPixels, 3)}

\* The second frame of a chase in two colours: the lit cells have moved to
\* offset 2 and there are only floor(N/3) of them.
C14_Witness ==
    LET e == strips[Engine]
    IN  /\ e.ActivePattern = THEATER_CHASE
        /\ e.Color1 # e.Color2
        /\ e.rendered = <<0, 1>>
        /\ 2 \in Lit(e)
        /\ 0 \notin Lit(e)
        /\ Cardinality(Lit(e)) = NumPixels \div 3


\* The hue value of cell i in the frame of Index k.
Hue(i, k) == (((i * 256) \div NumPixels) + k) % 256

\* C15: the colour of a RainbowCycle cell is the wheel colour of its hue
\* value ((i*256/N) + Index) & 255 and of nothing else, and the wheel is
\* continuous modulo 256: the colours of hue h and of hue (h+1) mod 256
\* differ by at most 3 in each channel.
C15_WheelContinuous ==
    LET e == strips[Engine]
    IN  e.rendered # <<>> =>
        \A i \in Cells :
            LET h == Hue(i, LastIndex(e))
            IN  /\ e.pixels[i] = Wheel(h)
                /\ \A ch \in 1 .. 3 :
                     Distance(Channels(Wheel(h))[ch],
                              Channels(Wheel((h + 1) % 256))[ch]) <= 3

\* A frame with a cell at hue 255, whose successor is hue 0: both are red.
C15_Witness ==
    LET e == strips[Engine]
    IN  /\ e.rendered # <<>>
        /\ e.Direction = FORWARD
        /\ \E i \in Cells :
              /\ Hue(i, LastIndex(e)) = 255
              /\ e.pixels[i] = Color(255, 0, 0)
              /\ Wheel(0) = Color(255, 0, 0)


\* The cells that are scan heads in the frame of Index k.
Heads(e, k) == {i \in Cells : i = k \/ i = UInt16(e.TotalSteps - k)}

\* The rendered frames in which cell i was a head.
HeadFrames(e, i) == {m \in 1 .. Len(e.rendered) : i \in Heads(e, e.rendered[m])}

Latest(M) == CHOOSE m \in M : \A o \in M : o <= m

Halved(color) == Color(Red(color) \div 2, Green(color) \div 2, Blue(color) \div 2)

\* The frames rendered since cell i was last a head (all of them if it never
\* was), and the colour it had then.
TailAge(e, i) ==
    IF HeadFrames(e, i) = {} THEN Len(e.rendered)
    ELSE Len(e.rendered) - Latest(HeadFrames(e, i))

TailOrigin(e, i) == IF HeadFrames(e, i) = {} THEN e.Color2 ELSE e.Color1

\* C16: a Scanner tick replaces each channel of every cell that is not a scan
\* head by half its previous value (floor); a cell that has not been a head
\* for k ticks holds its original channels shifted right by k bits, which is
\* 0 from k = 8 on.
C16_TailHalves ==
    [][LET e == strips[Engine]
           t == strips'[Engine]
       IN  (e.ActivePattern = SCANNER /\ Len(t.rendered) = Len(e.rendered) + 1)
           => /\ \A i \in Cells \ Heads(e, e.Index) :
                    t.pixels[i] = Halved(e.pixels[i])
              /\ \A i \in Cells :
                    LET k == TailAge(t, i)
                        c == TailOrigin(t, i)
                    IN  /\ t.pixels[i] = Color(Red(c) \div (2 ^ k),
                                                Green(c) \div (2 ^ k),
                                                Blue(c) \div (2 ^ k))
                        /\ k >= 8 => t.pixels[i] = 0]_vars

\* A Forward scan in a colour with a channel of 255: cell 0, the head of the
\* first frame, has been dimmed eight times and is dark; cell 1, dimmed
\* seven times, is not yet.
C16_Witness ==
    LET e == strips[Engine]
    IN  /\ e.ActivePattern = SCANNER
        /\ e.Direction = FORWARD
        /\ Red(e.Color1) = 255
        /\ HeadFrames(e, 0) = {1}
        /\ TailAge(e, 0) = 8
        /\ e.pixels[0] = 0
        /\ TailAge(e, 1) = 7
        /\ e.pixels[1] = Color(1, 1, 0)


\* C17: TotalSteps of a strip changes only when a pattern is initialised on
\* it, which in the sketch is read_from_serial taking a Pulse byte addressed
\* to that strip; no tick, Increment, Reverse, completion callback, solid or
\* off command changes it.
C17_TotalStepsFixed ==
    [][\A s \in Strips :
          strips'[s].TotalSteps # strips[s].TotalSteps
          => /\ pc = 4
             /\ Len(serial) > 0
             /\ Head(serial) \in PulseBytes
             /\ StripOf(Head(serial)) = s]_vars

\* Strip 1 pulsed through a whole Forward run, was reversed by the callback
\* and then set to solid red: it still has the step count of the pulse.
C17_Witness ==
    /\ cmd[1].byte = 52
    /\ strips[1].ActivePattern = NONE
    /\ strips[1].Direction = REVERSE
    /\ strips[1].TotalSteps = PulseSteps


C19_PulseNeverJumps ==
    \A s \in Strips :
        LET e == strips[s]
        IN  e.ActivePattern = PULSE
            => \A k \in 1 .. (Len(e.rendered) - 1) :
                  Distance(e.rendered[k + 1], e.rendered[k]) <= 1


\* The cell a Forward scan of TotalSteps = 2 * (N - 1) steps has its head on
\* in the frame of Index k.
HeadCell(e, k) == IF k <= NumPixels - 1 THEN k ELSE e.TotalSteps - k

\* C20: a Scanner running Forward renders the Index values 0, 1, ...,
\* TotalSteps - 1 in turn, and each of its frames has Color1 on exactly one
\* cell, the scan head: cell Index while Index <= N - 1 and cell
\* TotalSteps - Index afterwards, so that the head visits 0, 1, ..., N - 1,
\* N - 2, ..., 1; no frame has two heads or none.
C20_OneScanHead ==
    LET e == strips[Engine]
    IN  (e.ActivePattern = SCANNER /\ e.Direction = FORWARD /\ e.rendered # <<>>)
        => /\ \A m \in 1 .. Len(e.rendered) :
                 e.rendered[m] = (m - 1) % (2 * (NumPixels - 1))
           /\ HeadCell(e, LastIndex(e)) \in Cells
           /\ Heads(e, LastIndex(e)) = {HeadCell(e, LastIndex(e))}
           /\ Lit(e) = {HeadCell(e, LastIndex(e))}

\* The head is on its way back: the frame of Index N has it on cell N - 2.
C20_Witness ==
    LET e == strips[Engine]
    IN  /\ e.ActivePattern = SCANNER
        /\ e.Direction = FORWARD
        /\ e.rendered = [m \in 1 .. (NumPixels + 1) |-> m - 1]
        /\ Lit(e) = {NumPixels - 2}


Least(a, b) == IF a <= b THEN a ELSE b

Greatest(a, b) == IF a >= b THEN a ELSE b

\* C21: with the interpolation evaluated in 16-bit unsigned arithmetic, every
\* channel of a frame rendered by Fade or Pulse at an Index below TotalSteps
\* lies between the corresponding channels of Color1 and Color2, inclusive.
C21_FadeWithinRange ==
    LET e == strips[Engine]
    IN  (e.rendered # <<>> /\ LastIndex(e) < e.TotalSteps) =>
        \A i \in Cells, ch \in 1 .. 3 :
            LET c1 == Channels(e.Color1)[ch]
                c2 == Channels(e.Color2)[ch]
            IN  /\ Least(c1, c2) <= Channels(e.pixels[i])[ch]
                /\ Channels(e.pixels[i])[ch] <= Greatest(c1, c2)

=============================================================================
